---- MODULE Spec2Model ----
(***************************************************************************)
(* A model of jishaku's interactive pipeline: the exception reporting      *)
(* wrapper (jishaku/exception_handling.py), the Python REPL commands       *)
(* (jishaku/features/python.py), the shell command                         *)
(* (jishaku/features/shell.py) and task cancellation                       *)
(* (jishaku/features/root_command.py).                                     *)
(*                                                                         *)
(* Each subsystem has its own specification over the module's variables;   *)
(* the variables of the other subsystems stay at their constructed values. *)
(***************************************************************************)
EXTENDS Integers, Sequences, FiniteSets, TLC

VARIABLES
    \* ---- ReplResponseReactor (exception_handling.py) ----
    flags,          \* jishaku.flags.Flags: NO_EMBEDS, NO_REACTION, traceback destination
    rpc,            \* position of the `async with ReplResponseReactor` block
    handle,         \* self.handle: the do_after_sleep task
    slept,          \* seconds the do_after_sleep task has slept
    raised,         \* self.raised
    exc_val,        \* the exception the block raised (None when it raised nothing)
    reactions,      \* reactions present on self.message
    sent,           \* what send_traceback delivered, in order
    returned,       \* what __aexit__ returned: "True", "False", or the exception it raised
    \* ---- Feature.tasks (root_command.py, python.py, shell.py) ----
    tasks,          \* self.tasks: the indices of the listed CommandTasks, oldest first
    task_count,     \* self.task_count
    cancelled,      \* indices of the tasks whose asyncio task was cancelled
    reply,          \* what the last jsk cancel did: its argument and its answer
    \* ---- PythonFeature (python.py) ----
    retain,         \* self.retain
    _scope,         \* self._scope: the identity of the stored Scope
    scope_count,    \* number of Scope objects constructed so far
    last_result,    \* self.last_result
    last_returned,  \* what jsk_python_result_handling returned last
    repl_sessions,  \* self.repl_sessions
    no_repl_prefix, \* Flags.NO_REPL_PREFIX
    inv,            \* the running invocations of jsk py / jsk pyi / jsk repl
    \* ---- ShellFeature.jsk_shell (shell.py) ----
    spc,                \* position of jsk_shell
    read,               \* the lines the ShellReader has yielded
    interface_lines,    \* the lines added to the paginator interface
    interface_closed,   \* interface.closed
    reader_closed,      \* the `with ShellReader(...)` block has exited
    \* ---- two PythonFeatures given the same commands (python.py) ----
    runs

reactorVars == <<flags, rpc, handle, slept, raised, exc_val, reactions, sent,
                 returned>>
taskVars == <<tasks, task_count, cancelled, reply>>
pythonVars == <<retain, _scope, scope_count, last_result, last_returned,
                repl_sessions, no_repl_prefix, inv>>

shellVars == <<spc, read, interface_lines, interface_closed, reader_closed>>
pairVars == <<runs>>

vars == <<reactorVars, taskVars, pythonVars, shellVars, pairVars>>

None == "None"

\* exc_val when the block raised nothing.
NoException == [cls |-> "None", frames |-> <<>>, only |-> <<0, 0>>]

(***************************************************************************)
(* Bounds of the model.                                                    *)
(***************************************************************************)
\* jishaku.paginators.MAX_MESSAGE_SIZE (2000 in the repository), scaled down
\* so that TLC can enumerate texts on both sides of every threshold.
MAX_MESSAGE_SIZE == 40
\* Longest stack (in formatted lines) of a modelled exception.
MaxFrames == 2
\* The commands' coroutines that run at the same time on the event loop.
Slots == {1, 2}
\* Number of Scope objects constructed.
MaxScopes == 3
\* Number of tasks submitted (the cap of task_count).
MaxTasks == 3
\* Number of lines the subprocess of jsk shell writes.
MaxLines == 3

(***************************************************************************)
(* Text.  A line of text is <<c, p>>: c characters, p of which start a     *)
(* non-overlapping pair of backticks.  A text is a sequence of lines, each *)
(* ended by "\n", as traceback.format_exception produces them.             *)
(***************************************************************************)
RawLines == {<<3, 0>>, <<8, 1>>, <<14, 1>>}

RECURSIVE SumSeq(_)
SumSeq(s) == IF s = <<>> THEN 0 ELSE Head(s) + SumSeq(Tail(s))

Min(a, b) == IF a <= b THEN a ELSE b

\* str.replace("``", "`​`"): every pair of backticks gains one character.
ReplaceBackticks(line) == line[1] + line[2]

\* traceback.format_exception(etype, value, trace, limit): the first `limit`
\* stack entries, then the exception's own line.
FormatException(e, limit) ==
    SubSeq(e.frames, 1, Min(limit, Len(e.frames))) \o <<e.only>>

\* traceback_content: the formatted lines joined, backticks replaced.  The
\* result is the sequence of the lengths of its lines.
TracebackContent(e, limit) ==
    LET raw == FormatException(e, limit)
    IN  [i \in 1..Len(raw) |-> ReplaceBackticks(raw[i])]

\* len(traceback_content): every line carries its "\n".
TextLen(lines) == SumSeq(lines) + Len(lines)

\* traceback_content.split("\n"): the lines, and the empty string after the
\* last "\n".
SplitLines(lines) == lines \o <<0>>

(***************************************************************************)
(* discord.ext.commands.Paginator(prefix="```py", max_size=...), as        *)
(* send_traceback uses it.  A paginator is [pages, current, count, error]; *)
(* a page is the sequence of the lengths of its content lines.             *)
(***************************************************************************)
PrefixLen == 5      \* len("```py")
SuffixLen == 3      \* len("```")
LineSepLen == 1     \* len("\n")

NewPaginator ==
    [pages |-> <<>>, current |-> <<>>, count |-> PrefixLen + LineSepLen,
     error |-> FALSE]

ClosePage(p) ==
    [p EXCEPT !.pages = Append(@, p.current), !.current = <<>>,
              !.count = PrefixLen + LineSepLen]

\* Paginator.add_line: RuntimeError when the line cannot fit on any page.
AddLine(p, max_size, line) ==
    LET max_page_size == max_size - PrefixLen - SuffixLen - 2 * LineSepLen
        q == IF p.count + line + LineSepLen > max_size - SuffixLen
             THEN ClosePage(p) ELSE p
    IN  IF p.error THEN p
        ELSE IF line > max_page_size THEN [p EXCEPT !.error = TRUE]
        ELSE [q EXCEPT !.current = Append(@, line),
                       !.count = @ + line + LineSepLen]

RECURSIVE AddLines(_, _, _)
AddLines(p, max_size, lines) ==
    IF lines = <<>> THEN p
    ELSE AddLines(AddLine(p, max_size, Head(lines)), max_size, Tail(lines))

\* Paginator.pages: the open page is closed when it holds a line.
PaginatorPages(p) == IF p.current # <<>> THEN ClosePage(p).pages ELSE p.pages

\* len of a rendered page: prefix, the lines, suffix, joined by "\n".
PageLen(page) == PrefixLen + SumSeq(page) + Len(page) + LineSepLen + SuffixLen

\* len(f"```py\n{traceback_content}\n```")
FencedLen(n) == 6 + n + 4

(***************************************************************************)
(* send_traceback                                                          *)
(***************************************************************************)
SendTraceback(destination, verbosity, e) ==
    LET content == TracebackContent(e, verbosity)
        p == AddLines(NewPaginator, MAX_MESSAGE_SIZE - 20, SplitLines(content))
    IN  IF TextLen(content) <= MAX_MESSAGE_SIZE - 10
        THEN [ok |-> TRUE,
              msg |-> [dest |-> destination, kind |-> "single",
                       embed |-> ~flags.NO_EMBEDS,
                       text |-> content, verbosity |-> verbosity,
                       size |-> FencedLen(TextLen(content)), pages |-> <<>>]]
        ELSE IF p.error
        THEN [ok |-> FALSE, msg |-> None]
        ELSE [ok |-> TRUE,
              msg |-> [dest |-> destination, kind |-> "paged",
                       embed |-> TRUE,
                       text |-> content, verbosity |-> verbosity,
                       size |-> 0, pages |-> PaginatorPages(p)]]

(***************************************************************************)
(* ReplResponseReactor                                                     *)
(***************************************************************************)
ExcClasses == {"SyntaxError", "TimeoutError", "TimeoutExpired", "Other"}

RECURSIVE SeqsUpTo(_, _)
SeqsUpTo(S, n) ==
    IF n = 0 THEN {<<>>}
    ELSE LET shorter == SeqsUpTo(S, n - 1)
         IN  shorter \cup {Append(s, x) : s \in shorter, x \in S}

Exceptions ==
    [cls : ExcClasses, frames : SeqsUpTo(RawLines, MaxFrames), only : RawLines]

\* Flags.traceback_destination(message): the author, the channel or None.
TracebackDestinations == {"author", "channel", None}

FlagValues ==
    [NO_EMBEDS : BOOLEAN, NO_REACTION : BOOLEAN,
     traceback_destination : TracebackDestinations]

\* attempt_add_reaction: nothing under NO_REACTION; an HTTPException
\* (http_ok = FALSE) is swallowed.
AttemptAddReaction(rs, reaction, http_ok) ==
    IF flags.NO_REACTION \/ ~http_ok THEN rs ELSE rs \cup {reaction}

IsShortTraceback(e) == e.cls \in {"SyntaxError", "TimeoutError", "TimeoutExpired"}

\* ReplResponseReactor.__init__
NewReactor ==
    /\ rpc = "init"
    /\ handle = None
    /\ slept = 0
    /\ raised = FALSE
    /\ exc_val = NoException
    /\ reactions = {}
    /\ sent = <<>>
    /\ returned = None

\* Feature.__init__: no task yet.
NewTasks ==
    /\ tasks = <<>>
    /\ task_count = 0
    /\ cancelled = {}
    /\ reply = [literal |-> None, index |-> 0, task |-> 0, answer |-> None]

NoMessage == [author |-> None, channel |-> None, tick |-> FALSE, body |-> None]

\* An invocation: its ctx (author, channel), its locals (scope, arg_dict["_"],
\* response, result), the argument of the running jsk_python_result_handling
\* call, AsyncSender's send_value, and the last answer it sent to the channel.
NoInvocation ==
    [kind |-> None, pc |-> None, author |-> None, channel |-> None,
     scope |-> 0, underscore |-> None, response |-> NoMessage, out |-> None,
     result |-> None, handling |-> None, send_value |-> None]

\* PythonFeature.__init__
NewPythonFeature ==
    /\ _scope = 1
    /\ scope_count = 1
    /\ last_result = None
    /\ last_returned = None
    /\ repl_sessions = {}
    /\ inv = [i \in Slots |-> NoInvocation]

\* A feature's state, as the pair of features of SpecRetain holds it:
\* self.retain, self._scope, the number of Scopes constructed, the names
\* each Scope binds, and the Scope of the running jsk repl session (0: none).
NewFeature(on) ==
    [retain |-> on, stored |-> 1, count |-> 1,
     names |-> [k \in 1..MaxScopes |-> {}], repl |-> 0]

\* Before jsk shell is invoked.
NewShell ==
    /\ spc = "idle"
    /\ read = <<>>
    /\ interface_lines = <<>>
    /\ interface_closed = FALSE
    /\ reader_closed = FALSE

NewPair == runs = <<NewFeature(FALSE), NewFeature(FALSE)>>

\* The flags as jishaku.flags sets them when no environment variable is set.
DefaultFlags ==
    [NO_EMBEDS |-> FALSE, NO_REACTION |-> FALSE, traceback_destination |-> None]

InitReactor ==
    /\ flags \in FlagValues
    /\ NewReactor
    /\ NewTasks
    /\ NewPythonFeature /\ retain = FALSE /\ no_repl_prefix = FALSE
    /\ NewShell
    /\ NewPair

\* do_after_sleep(2, ...): the delay in seconds.
Delay == 2

\* __aenter__: the do_after_sleep task is created; it sleeps from its first
\* step on.
AEnter ==
    /\ rpc = "init"
    /\ handle' = "sleeping"
    /\ rpc' = "block"
    /\ UNCHANGED <<flags, slept, raised, exc_val, reactions, sent, returned>>
    /\ UNCHANGED <<taskVars, pythonVars, shellVars, pairVars>>

\* A second of asyncio.sleep(delay) passes.  Nothing runs between the end of
\* the block and the first await of __aexit__, so the task and its timer
\* take no step while rpc = "exiting".
Sleeps ==
    /\ rpc # "exiting"
    /\ handle = "sleeping"
    /\ slept < Delay
    /\ slept' = slept + 1
    /\ UNCHANGED <<flags, rpc, handle, raised, exc_val, reactions, sent, returned>>
    /\ UNCHANGED <<taskVars, pythonVars, shellVars, pairVars>>

\* do_after_sleep: the sleep is over and the coroutine is called.
\* attempt_add_reaction returns at once under NO_REACTION and awaits
\* msg.add_reaction otherwise.
AfterSleep ==
    /\ rpc # "exiting"
    /\ handle = "sleeping"
    /\ slept >= Delay
    /\ handle' = IF flags.NO_REACTION THEN "finished" ELSE "calling"
    /\ UNCHANGED <<flags, rpc, slept, raised, exc_val, reactions, sent, returned>>
    /\ UNCHANGED <<taskVars, pythonVars, shellVars, pairVars>>

\* msg.add_reaction answers the task: the reaction is added, or an
\* HTTPException is swallowed.
ReactionAnswered ==
    /\ rpc # "exiting"
    /\ handle = "calling"
    /\ \E http_ok \in BOOLEAN :
          reactions' = AttemptAddReaction(reactions, "TRIANGLE", http_ok)
    /\ handle' = "finished"
    /\ UNCHANGED <<flags, rpc, slept, raised, exc_val, sent, returned>>
    /\ UNCHANGED <<taskVars, pythonVars, shellVars, pairVars>>

\* The task cancelled inside msg.add_reaction gets its CancelledError: the
\* request had reached the server or had not.
CallCancelled ==
    /\ handle = "cancelling"
    /\ \E delivered \in BOOLEAN :
          reactions' = AttemptAddReaction(reactions, "TRIANGLE", delivered)
    /\ handle' = "cancelled"
    /\ UNCHANGED <<flags, rpc, slept, raised, exc_val, sent, returned>>
    /\ UNCHANGED <<taskVars, pythonVars, shellVars, pairVars>>

\* The body of the block returns.
BlockReturns ==
    /\ rpc = "block"
    /\ rpc' = "exiting"
    /\ exc_val' = NoException
    /\ UNCHANGED <<flags, handle, slept, raised, reactions, sent, returned>>
    /\ UNCHANGED <<taskVars, pythonVars, shellVars, pairVars>>

\* The body of the block raises e.
BlockRaises ==
    /\ rpc = "block"
    /\ rpc' = "exiting"
    /\ exc_val' \in Exceptions
    /\ UNCHANGED <<flags, handle, slept, raised, reactions, sent, returned>>
    /\ UNCHANGED <<taskVars, pythonVars, shellVars, pairVars>>

\* A handle that is left as it is.
CancelNothing(h) == h

\* Task.cancel(): a sleeping task never calls the coroutine, a task inside
\* msg.add_reaction is interrupted there, a finished task stays finished.
CancelHandle(h) ==
    IF h = "sleeping" THEN "cancelled"
    ELSE IF h = "calling" THEN "cancelling"
    ELSE h

\* __aexit__ when the block raised nothing.
AExitClean ==
    /\ rpc = "exiting"
    /\ exc_val = NoException
    /\ handle' = CancelHandle(handle)
    /\ \E http_ok \in BOOLEAN :
          reactions' = AttemptAddReaction(reactions, "CHECK_MARK", http_ok)
    /\ returned' = "False"
    /\ rpc' = "done"
    /\ UNCHANGED <<flags, slept, raised, exc_val, sent>>
    /\ UNCHANGED <<taskVars, pythonVars, shellVars, pairVars>>

\* __aexit__ when the block raised exc_val.
AExitError ==
    /\ rpc = "exiting"
    /\ exc_val # NoException
    /\ handle' = CancelHandle(handle)
    /\ raised' = TRUE
    /\ LET short == IsShortTraceback(exc_val)
           fallback == IF short THEN "channel" ELSE "author"
           destination == IF flags.traceback_destination # None
                          THEN flags.traceback_destination ELSE fallback
           emoji == IF ~short THEN "DOUBLE_EXCLAMATION"
                    ELSE IF exc_val.cls = "SyntaxError" THEN "EXCLAMATION"
                    ELSE "ALARM_CLOCK"
           target == IF destination = "channel" THEN "message" ELSE destination
           res == SendTraceback(target, IF short THEN 0 ELSE 8, exc_val)
       IN  /\ IF destination # "channel"
              THEN \E http_ok \in BOOLEAN :
                      reactions' = AttemptAddReaction(reactions, emoji, http_ok)
              ELSE reactions' = reactions
           /\ IF res.ok
              THEN /\ sent' = Append(sent, res.msg)
                   /\ returned' = "True"
              ELSE /\ sent' = sent
                   /\ returned' = "RuntimeError"
    /\ rpc' = "done"
    /\ UNCHANGED <<flags, slept, exc_val>>
    /\ UNCHANGED <<taskVars, pythonVars, shellVars, pairVars>>

NextReactor ==
    \/ AEnter
    \/ Sleeps
    \/ AfterSleep
    \/ ReactionAnswered
    \/ CallCancelled
    \/ BlockReturns
    \/ BlockRaises
    \/ AExitClean
    \/ AExitError

SpecReactor == InitReactor /\ [][NextReactor]_vars

(***************************************************************************)
(* PythonFeature                                                           *)
(***************************************************************************)
Results == {"r1", None}
Users == {"u1", "u2"}
Channels == {"c1", "c2"}
\* A message's content: whether it starts with a backtick, and the text
\* codeblock_converter extracts from it.
Bodies == {"code", "exit", "quit", "exit()", "quit()"}
Messages == [author : Users, channel : Channels, tick : BOOLEAN, body : Bodies]

\* The stored scope whatever the retention.
ScopeAlwaysStored(on, stored, fresh) == stored

\* PythonFeature.scope
ScopeProperty(on, stored, fresh) == IF on THEN stored ELSE fresh

\* jsk_python_result_handling: the result is sent to the channel, and the
\* message that was sent is returned.
ResultHandling(r) == IF r = "r1" THEN "Message(r1)" ELSE "Message(None)"

\* No result is skipped.
SkipNothing(r) == FALSE

\* `if result is None: continue`
SkipResult(r) == r = None

\* codeblock_converter(response.content).content
CodeblockContent(m) == m.body

\* A check that does not look at the author.
ReplCheckAnyAuthor(v, m) ==
    /\ m.channel = v.channel
    /\ (no_repl_prefix \/ m.tick)

\* check(m) of jsk_repl
ReplCheck(v, m) ==
    /\ m.author = v.author
    /\ m.channel = v.channel
    /\ (no_repl_prefix \/ m.tick)

InitPython ==
    /\ flags = DefaultFlags
    /\ NewReactor
    /\ NewTasks
    /\ NewPythonFeature
    /\ retain \in BOOLEAN
    /\ no_repl_prefix = FALSE
    /\ NewShell
    /\ NewPair

\* An invocation takes the first slot that no running invocation holds.
FreeSlot(i) ==
    /\ inv[i].kind = None
    /\ \A j \in Slots : j < i => inv[j].kind # None

\* jsk retain [toggle]
JskRetain ==
    /\ \E toggle \in {None, "on", "off"} :
          IF toggle = "on" /\ ~retain
          THEN /\ scope_count < MaxScopes
               /\ retain' = TRUE
               /\ _scope' = scope_count + 1
               /\ scope_count' = scope_count + 1
          ELSE IF toggle = "off" /\ retain
          THEN /\ retain' = FALSE
               /\ UNCHANGED <<_scope, scope_count>>
          ELSE UNCHANGED <<retain, _scope, scope_count>>
    /\ UNCHANGED <<last_result, last_returned, repl_sessions, no_repl_prefix,
                   inv>>
    /\ UNCHANGED <<reactorVars, taskVars, shellVars, pairVars>>

\* The start of jsk py and jsk pyi, up to the first await of the executor.
StartExecution(i, kind) ==
    /\ FreeSlot(i)
    /\ retain \/ scope_count < MaxScopes
    /\ inv' = [inv EXCEPT ![i] =
          [NoInvocation EXCEPT
              !.kind = kind, !.pc = "exec",
              !.underscore = last_result,
              !.scope = ScopeProperty(retain, _scope, scope_count + 1)]]
    /\ scope_count' = IF retain THEN scope_count ELSE scope_count + 1
    /\ UNCHANGED <<retain, _scope, last_result, last_returned, repl_sessions,
                   no_repl_prefix>>
    /\ UNCHANGED <<reactorVars, taskVars, shellVars, pairVars>>

JskPython == \E i \in Slots : StartExecution(i, "py")

JskPythonInspect == \E i \in Slots : StartExecution(i, "pyi")

\* jsk repl, up to the first wait_for.
JskRepl ==
    \E i \in Slots, u \in Users, c \in Channels :
        /\ FreeSlot(i)
        /\ retain \/ scope_count < MaxScopes
        /\ LET v == [NoInvocation EXCEPT
                        !.kind = "repl", !.author = u, !.channel = c,
                        !.underscore = last_result,
                        !.scope = ScopeProperty(retain, _scope, scope_count + 1)]
           IN  IF c \in repl_sessions
               THEN \* "Already running an interactive shell in this channel."
                    UNCHANGED <<inv, repl_sessions>>
               ELSE /\ inv' = [inv EXCEPT ![i] =
                                  [v EXCEPT !.pc = "wait", !.out = "banner"]]
                    /\ repl_sessions' = repl_sessions \cup {c}
        /\ scope_count' = IF retain THEN scope_count ELSE scope_count + 1
        /\ UNCHANGED <<retain, _scope, last_result, last_returned, no_repl_prefix>>
        /\ UNCHANGED <<reactorVars, taskVars, shellVars, pairVars>>

\* A message arrives that the waiting session i accepts: wait_for returns it.
ReplMessage ==
    \E i \in Slots, m \in Messages :
        /\ inv[i].kind = "repl" /\ inv[i].pc = "wait"
        /\ ReplCheck(inv[i], m)
        /\ inv' = [inv EXCEPT ![i].pc = "got", ![i].response = m]
        /\ UNCHANGED <<retain, _scope, scope_count, last_result, last_returned,
                       repl_sessions, no_repl_prefix>>
        /\ UNCHANGED <<reactorVars, taskVars, shellVars, pairVars>>

\* The session goes on with the message it got: it ends, answers with the
\* hint, or starts to execute the message's code.
ReplInput ==
    \E i \in Slots :
        /\ inv[i].kind = "repl" /\ inv[i].pc = "got"
        /\ IF CodeblockContent(inv[i].response) \in {"exit()", "quit()"}
           THEN /\ inv' = [inv EXCEPT ![i] = NoInvocation]
                /\ repl_sessions' = repl_sessions \ {inv[i].channel}
           ELSE IF CodeblockContent(inv[i].response) \in {"exit", "quit"}
           THEN /\ inv' = [inv EXCEPT ![i].pc = "wait", ![i].out = "hint",
                                      ![i].response = NoMessage]
                /\ UNCHANGED repl_sessions
           ELSE /\ inv' = [inv EXCEPT ![i].pc = "exec", ![i].out = None,
                                      ![i].result = None,
                                      ![i].send_value = None]
                /\ UNCHANGED repl_sessions
        /\ UNCHANGED <<retain, _scope, scope_count, last_result, last_returned,
                       no_repl_prefix>>
        /\ UNCHANGED <<reactorVars, taskVars, shellVars, pairVars>>

\* A message arrives that no waiting session accepts: nothing happens.
ReplIgnored ==
    /\ {m \in Messages :
          \A i \in Slots :
              ~(inv[i].kind = "repl" /\ inv[i].pc = "wait" /\ ReplCheck(inv[i], m))}
          # {}
    /\ UNCHANGED vars

\* wait_for times out after ten minutes.
ReplTimeout ==
    \E i \in Slots :
        /\ inv[i].kind = "repl" /\ inv[i].pc = "wait"
        /\ inv' = [inv EXCEPT ![i] = NoInvocation]
        /\ repl_sessions' = repl_sessions \ {inv[i].channel}
        /\ UNCHANGED <<retain, _scope, scope_count, last_result, last_returned,
                       no_repl_prefix>>
        /\ UNCHANGED <<reactorVars, taskVars, shellVars, pairVars>>

\* The executor of invocation i is resumed (AsyncSender hands it send_value
\* and resets send_value to None) and yields the result r.
ExecYields ==
    \E i \in Slots, r \in Results :
        /\ inv[i].pc = "exec"
        /\ LET v == [inv[i] EXCEPT !.result = r, !.send_value = None]
           IN  IF inv[i].kind = "pyi"
               THEN /\ last_result' = r
                    /\ inv' = [inv EXCEPT ![i] =
                                  [v EXCEPT !.pc = "handling", !.handling = r]]
               ELSE IF SkipResult(r)
               THEN /\ last_result' = last_result
                    /\ inv' = [inv EXCEPT ![i] = v]
               ELSE /\ last_result' = r
                    /\ inv' = [inv EXCEPT ![i] =
                                  [v EXCEPT !.pc = "handling", !.handling = r]]
        /\ UNCHANGED <<retain, _scope, scope_count, last_returned, repl_sessions,
                       no_repl_prefix>>
        /\ UNCHANGED <<reactorVars, taskVars, shellVars, pairVars>>

\* The handling of the result completes: the answer is in the channel and
\* what the handling returned is given to send().
HandlingDone ==
    \E i \in Slots :
        /\ inv[i].pc = "handling"
        /\ inv' = [inv EXCEPT ![i].pc = "exec",
                              ![i].send_value = ResultHandling(inv[i].handling),
                              ![i].handling = None]
        /\ last_returned' = IF inv[i].kind = "pyi" THEN last_returned
                            ELSE ResultHandling(inv[i].handling)
        /\ UNCHANGED <<retain, _scope, scope_count, last_result, repl_sessions,
                       no_repl_prefix>>
        /\ UNCHANGED <<reactorVars, taskVars, shellVars, pairVars>>

\* The end of the `async with` block and of the `finally` clause: jsk py and
\* jsk pyi return, jsk repl waits again.  When __aexit__ could not send the
\* traceback its error leaves the command: a session then ends without
\* leaving repl_sessions.
Finished(v, absorbed) ==
    IF absorbed /\ v.kind = "repl"
    THEN [v EXCEPT !.pc = "wait", !.result = None, !.send_value = None,
                   !.response = NoMessage]
    ELSE NoInvocation

\* The executor of invocation i runs to its end.
ExecStops ==
    \E i \in Slots :
        /\ inv[i].pc = "exec"
        /\ inv' = [inv EXCEPT ![i] = Finished(inv[i], TRUE)]
        /\ UNCHANGED <<retain, _scope, scope_count, last_result, last_returned,
                       repl_sessions, no_repl_prefix>>
        /\ UNCHANGED <<reactorVars, taskVars, shellVars, pairVars>>

\* The executor of invocation i raises.
ExecRaises ==
    \E i \in Slots, absorbed \in BOOLEAN :
        /\ inv[i].pc = "exec"
        /\ inv' = [inv EXCEPT ![i] = Finished(inv[i], absorbed)]
        /\ UNCHANGED <<retain, _scope, scope_count, last_result, last_returned,
                       repl_sessions, no_repl_prefix>>
        /\ UNCHANGED <<reactorVars, taskVars, shellVars, pairVars>>

NextPython ==
    \/ JskRetain
    \/ JskPython
    \/ JskPythonInspect
    \/ ExecYields
    \/ HandlingDone
    \/ ExecStops
    \/ ExecRaises

SpecPython == InitPython /\ [][NextPython]_vars

InitRepl ==
    /\ flags = DefaultFlags
    /\ NewReactor
    /\ NewTasks
    /\ NewPythonFeature
    /\ retain \in BOOLEAN
    /\ no_repl_prefix \in BOOLEAN
    /\ NewShell
    /\ NewPair

NextRepl ==
    \/ JskRepl
    \/ ReplMessage
    \/ ReplInput
    \/ ReplIgnored
    \/ ReplTimeout
    \/ ExecYields
    \/ HandlingDone
    \/ ExecStops
    \/ ExecRaises

SpecRepl == InitRepl /\ [][NextRepl]_vars

(***************************************************************************)
(* ShellFeature.jsk_shell                                                  *)
(***************************************************************************)
\* The lines a subprocess writes, and the return codes it ends with.
OutputLines == {"out a", "out b"}
CloseCodes == {"[status] Return code 0", "[status] Return code 1"}

\* interface.add_line(line)
InterfaceAddLine(lines, line) == Append(lines, line)

\* A command that returns at every line, whatever interface.closed is.
ReturnsOnEveryLine(closed) == TRUE

\* `if interface.closed: return`
ReturnsOnLine(closed) == closed

InitShell ==
    /\ flags = DefaultFlags
    /\ NewReactor
    /\ NewTasks
    /\ NewPythonFeature /\ retain = FALSE /\ no_repl_prefix = FALSE
    /\ NewShell
    /\ NewPair

\* jsk shell up to its first wait for the reader: the reader is opened, the
\* prompt line is added and the interface is sent.
JskShell ==
    /\ spc = "idle"
    /\ spc' = "reading"
    /\ interface_lines' = InterfaceAddLine(interface_lines, "$ command")
    /\ UNCHANGED <<read, interface_closed, reader_closed>>
    /\ UNCHANGED <<reactorVars, taskVars, pythonVars, pairVars>>

\* The reader yields a line: the command returns when it finds the
\* interface closed, and adds the line otherwise.
ReaderYields ==
    /\ spc = "reading"
    /\ Len(read) < MaxLines
    /\ \E line \in OutputLines :
          /\ read' = Append(read, line)
          /\ IF ReturnsOnLine(interface_closed)
             THEN /\ spc' = "done"
                  /\ reader_closed' = TRUE
                  /\ UNCHANGED interface_lines
             ELSE /\ spc' = "reading"
                  /\ interface_lines' = InterfaceAddLine(interface_lines, line)
                  /\ UNCHANGED reader_closed
    /\ UNCHANGED interface_closed
    /\ UNCHANGED <<reactorVars, taskVars, pythonVars, pairVars>>

\* The subprocess has ended and the reader has no line left: the loop ends
\* and the `with ShellReader(...)` block exits.
ReaderEnds ==
    /\ spc = "reading"
    /\ spc' = "status"
    /\ reader_closed' = TRUE
    /\ UNCHANGED <<read, interface_lines, interface_closed>>
    /\ UNCHANGED <<reactorVars, taskVars, pythonVars, pairVars>>

\* The status line with reader.close_code is added.
AddStatus ==
    /\ spc = "status"
    /\ \E code \in CloseCodes :
          interface_lines' = InterfaceAddLine(interface_lines, code)
    /\ spc' = "done"
    /\ UNCHANGED <<read, interface_closed, reader_closed>>
    /\ UNCHANGED <<reactorVars, taskVars, pythonVars, pairVars>>

\* The owner closes the paginator, while jsk shell waits for the reader or
\* after it has returned.
CloseInterface ==
    /\ spc \in {"reading", "done"}
    /\ ~interface_closed
    /\ interface_closed' = TRUE
    /\ UNCHANGED <<spc, read, interface_lines, reader_closed>>
    /\ UNCHANGED <<reactorVars, taskVars, pythonVars, pairVars>>

NextShell ==
    \/ JskShell
    \/ ReaderYields
    \/ ReaderEnds
    \/ AddStatus
    \/ CloseInterface

SpecShell == InitShell /\ [][NextShell]_vars

(***************************************************************************)
(* Feature.tasks and jsk cancel                                            *)
(***************************************************************************)
\* Entering `with self.submit(ctx)`: a new CommandTask at the end of the list.
SubmitTask(ts, count) == Append(ts, count + 1)

\* Leaving `with self.submit(ctx)`: the task is removed when still listed.
RemoveTask(ts, t) == SelectSeq(ts, LAMBDA x : x # t)

\* A pop at the other end of the list.
PopLeft(ts) == [task |-> Head(ts), rest |-> Tail(ts)]

\* self.tasks.pop()
Pop(ts) == [task |-> ts[Len(ts)], rest |-> SubSeq(ts, 1, Len(ts) - 1)]

\* discord.utils.get(self.tasks, index=index): the first task with that
\* index, 0 when there is none.
GetTask(ts, index) ==
    IF \E k \in 1..Len(ts) : ts[k] = index THEN index ELSE 0

InitTasks ==
    /\ flags = DefaultFlags
    /\ NewReactor
    /\ NewTasks
    /\ NewPythonFeature /\ retain = FALSE /\ no_repl_prefix = FALSE
    /\ NewShell
    /\ NewPair

\* A command enters `with self.submit(ctx)`.
Submit ==
    /\ task_count < MaxTasks
    /\ tasks' = SubmitTask(tasks, task_count)
    /\ task_count' = task_count + 1
    /\ UNCHANGED <<cancelled, reply>>
    /\ UNCHANGED <<reactorVars, pythonVars, shellVars, pairVars>>

\* A command leaves `with self.submit(ctx)`.
Leave ==
    /\ \E k \in 1..Len(tasks) : tasks' = RemoveTask(tasks, tasks[k])
    /\ UNCHANGED <<task_count, cancelled, reply>>
    /\ UNCHANGED <<reactorVars, pythonVars, shellVars, pairVars>>

\* jsk cancel <index>: the argument is "~", another string, or an integer.
JskCancel ==
    /\ \E literal \in {"~", "other", "int"}, index \in -1..MaxTasks :
          /\ literal # "int" => index = 0
          /\ IF tasks = <<>>
             THEN /\ reply' = [literal |-> literal, index |-> index, task |-> 0,
                               answer |-> "No tasks to cancel."]
                  /\ UNCHANGED <<tasks, cancelled>>
             ELSE IF literal = "~"
             THEN /\ cancelled' = cancelled \cup {tasks[k] : k \in 1..Len(tasks)}
                  /\ tasks' = <<>>
                  /\ reply' = [literal |-> literal, index |-> index,
                               task |-> Len(tasks), answer |-> "Cancelled tasks."]
             ELSE IF literal # "int"
             THEN /\ reply' = [literal |-> literal, index |-> index, task |-> 0,
                               answer |-> "BadArgument"]
                  /\ UNCHANGED <<tasks, cancelled>>
             ELSE IF index = -1
             THEN /\ tasks' = Pop(tasks).rest
                  /\ cancelled' = cancelled \cup {Pop(tasks).task}
                  /\ reply' = [literal |-> literal, index |-> index,
                               task |-> Pop(tasks).task, answer |-> "Cancelled task"]
             ELSE IF GetTask(tasks, index) # 0
             THEN /\ tasks' = RemoveTask(tasks, GetTask(tasks, index))
                  /\ cancelled' = cancelled \cup {GetTask(tasks, index)}
                  /\ reply' = [literal |-> literal, index |-> index,
                               task |-> GetTask(tasks, index),
                               answer |-> "Cancelled task"]
             ELSE /\ reply' = [literal |-> literal, index |-> index, task |-> 0,
                               answer |-> "Unknown task."]
                  /\ UNCHANGED <<tasks, cancelled>>
    /\ UNCHANGED task_count
    /\ UNCHANGED <<reactorVars, pythonVars, shellVars, pairVars>>

NextTasks ==
    \/ Submit
    \/ Leave
    \/ JskCancel

SpecTasks == InitTasks /\ [][NextTasks]_vars

(***************************************************************************)
(* Two PythonFeatures that receive the same jsk py and jsk repl commands   *)
(* and their own jsk retain commands                                       *)
(***************************************************************************)
\* The names the executed code binds.
Names == {"x", "y"}

\* jsk retain <toggle> on the feature f.
RetainToggled(f, toggle) ==
    IF toggle = "on" /\ ~f.retain
    THEN [f EXCEPT !.retain = TRUE, !.stored = f.count + 1, !.count = f.count + 1]
    ELSE IF toggle = "off" /\ f.retain
    THEN [f EXCEPT !.retain = FALSE]
    ELSE f

\* jsk py on the feature f with code that binds name: the executor updates
\* the Scope self.scope returned; a fresh Scope is dropped with the command.
PythonExecuted(f, name) ==
    LET scope == ScopeProperty(f.retain, f.stored, 0)
    IN  IF scope = 0 THEN f
        ELSE [f EXCEPT !.names[scope] = @ \cup {name}]

\* jsk repl on the feature f: the session keeps the Scope self.scope
\* returned for all of its inputs.
ReplStarted(f) ==
    [f EXCEPT !.repl = ScopeProperty(f.retain, f.stored, f.count + 1),
              !.count = IF f.retain THEN f.count ELSE f.count + 1]

\* An input of the running session, with code that binds name.
ReplExecuted(f, name) == [f EXCEPT !.names[f.repl] = @ \cup {name}]

\* exit() or quit() in the running session.
ReplExited(f) == [f EXCEPT !.repl = 0]

\* The names visible to the inputs of the running session of f.
ReplVisible(f) == f.names[f.repl]

InitRetain ==
    /\ flags = DefaultFlags
    /\ NewReactor
    /\ NewTasks
    /\ NewPythonFeature /\ retain = FALSE /\ no_repl_prefix = FALSE
    /\ NewShell
    /\ NewPair

\* jsk retain is sent to one of the two features.
PairRetain ==
    /\ \E r \in {1, 2}, toggle \in {None, "on", "off"} :
          /\ runs[r].count < MaxScopes
          /\ runs' = [runs EXCEPT ![r] = RetainToggled(runs[r], toggle)]
    /\ UNCHANGED <<reactorVars, taskVars, pythonVars, shellVars>>

\* The same jsk py is sent to both features.
PairPython ==
    /\ \E name \in Names :
          runs' = <<PythonExecuted(runs[1], name), PythonExecuted(runs[2], name)>>
    /\ UNCHANGED <<reactorVars, taskVars, pythonVars, shellVars>>

\* jsk repl is sent to both features.
PairRepl ==
    /\ \A r \in {1, 2} : runs[r].repl = 0 /\ runs[r].count < MaxScopes
    /\ runs' = <<ReplStarted(runs[1]), ReplStarted(runs[2])>>
    /\ UNCHANGED <<reactorVars, taskVars, pythonVars, shellVars>>

\* The same input is sent to the running sessions of both features.
PairReplInput ==
    /\ \A r \in {1, 2} : runs[r].repl # 0
    /\ \E name \in Names :
          runs' = <<ReplExecuted(runs[1], name), ReplExecuted(runs[2], name)>>
    /\ UNCHANGED <<reactorVars, taskVars, pythonVars, shellVars>>

\* exit() is sent to the running sessions of both features.
PairReplExit ==
    /\ \A r \in {1, 2} : runs[r].repl # 0
    /\ runs' = <<ReplExited(runs[1]), ReplExited(runs[2])>>
    /\ UNCHANGED <<reactorVars, taskVars, pythonVars, shellVars>>

NextRetain ==
    \/ PairRetain
    \/ PairPython
    \/ PairRepl
    \/ PairReplInput
    \/ PairReplExit

SpecRetain == InitRetain /\ [][NextRetain]_vars

(***************************************************************************)
(* Properties                                                              *)
(***************************************************************************)
RECURSIVE Flatten(_)
Flatten(pages) ==
    IF pages = <<>> THEN <<>> ELSE Head(pages) \o Flatten(Tail(pages))

\* C1: when __aexit__ is over, an exception the block raised has set
\* `raised`, its traceback was sent through send_traceback and __aexit__
\* returned True; a block that raised nothing has __aexit__ return False,
\* leaves `raised` False and sends no traceback.
C1_AExitAbsorbsEveryException ==
    rpc = "done" =>
        IF exc_val # NoException
        THEN /\ raised
             /\ returned = "True"
             /\ Len(sent) = 1
             /\ sent[1].text = TracebackContent(exc_val, sent[1].verbosity)
        ELSE /\ ~raised
             /\ returned = "False"
             /\ sent = <<>>

\* C6: a traceback of any length is delivered: a text of at most
\* MAX_MESSAGE_SIZE - 10 characters as one message whose fenced content has
\* at most MAX_MESSAGE_SIZE characters, a longer one on pages of at most
\* MAX_MESSAGE_SIZE - 20 characters that hold every line of it, in order.
C6_TracebackOfAnyLengthDelivered ==
    (rpc = "done" /\ exc_val # NoException) =>
        LET content == TracebackContent(exc_val, IF IsShortTraceback(exc_val) THEN 0 ELSE 8)
        IN  /\ Len(sent) = 1
            /\ sent[1].text = content
            /\ IF TextLen(content) <= MAX_MESSAGE_SIZE - 10
               THEN /\ sent[1].kind = "single"
                    /\ sent[1].size <= MAX_MESSAGE_SIZE
               ELSE /\ sent[1].kind = "paged"
                    /\ \A k \in 1..Len(sent[1].pages) :
                          PageLen(sent[1].pages[k]) <= MAX_MESSAGE_SIZE - 20
                    /\ Flatten(sent[1].pages) = SplitLines(content)

\* C2: an invocation of jsk py / jsk pyi that starts while retention is on
\* runs against the stored scope, which stays the same object for as long as
\* retention stays on; one that starts while retention is off runs against a
\* Scope constructed for it, which is neither the stored scope nor the scope
\* of any other invocation.
C2_ScopeIdentity ==
    [][/\ (retain /\ retain') => _scope' = _scope
       /\ _scope <= scope_count
       /\ \A i \in Slots :
             /\ inv[i].scope <= scope_count
             /\ (inv[i].kind # None /\ inv'[i].kind # None) =>
                    inv'[i].scope = inv[i].scope
             /\ (inv[i].kind = None /\ inv'[i].kind \in {"py", "pyi"}) =>
                    IF retain
                    THEN /\ inv'[i].scope = _scope
                         /\ scope_count' = scope_count
                    ELSE /\ scope_count' = scope_count + 1
                         /\ inv'[i].scope = scope_count'
                         /\ inv'[i].scope # _scope'
                         /\ \A j \in Slots \ {i} : inv'[j].scope # inv'[i].scope
      ]_vars

\* Two invocations run against the stored scope at the same time.
C2_Witness ==
    /\ retain
    /\ inv[1].kind = "py" /\ inv[2].kind = "pyi"
    /\ inv[1].scope = _scope /\ inv[2].scope = _scope
    /\ scope_count > 1

\* C3: while jsk py waits for its executor, the next thing it does is hand a
\* result that is not None to jsk_python_result_handling (and store it in
\* last_result), or take a None without a call of the handling and without
\* a change of last_result, or end; the executor is not resumed while a
\* result is handled, and is resumed with what the handling of its last
\* result returned.
C3_StreamsInOrder ==
    [][\A i \in Slots :
          /\ (inv[i].kind = "py" /\ inv[i].pc = "exec" /\ inv'[i] # inv[i]) =>
                \/ inv'[i] = NoInvocation
                \/ /\ inv'[i].pc = "handling"
                   /\ inv'[i].result # None
                   /\ inv'[i].handling = inv'[i].result
                   /\ last_result' = inv'[i].result
                \/ /\ inv'[i].pc = "exec"
                   /\ inv'[i].result = None
                   /\ inv'[i].handling = None
                   /\ inv'[i].send_value = None
                   /\ last_result' = last_result
          /\ (inv[i].kind = "py" /\ inv[i].pc = "handling" /\ inv'[i] # inv[i]) =>
                /\ inv'[i].pc = "exec"
                /\ inv'[i].result = inv[i].result
                /\ inv'[i].send_value = ResultHandling(inv[i].result)
          /\ (inv[i].kind = "py" /\ inv[i].pc = "exec" /\ inv[i].send_value # None) =>
                inv[i].send_value = ResultHandling(inv[i].result)
      ]_vars

\* jsk py got r1, handled it, then got None: last_result is still r1 and
\* nothing is given to the executor.
C3_Witness ==
    /\ inv[1].kind = "py" /\ inv[1].pc = "exec"
    /\ inv[1].underscore = None
    /\ inv[1].result = None /\ inv[1].send_value = None
    /\ inv[2].kind = None
    /\ last_result = "r1" /\ last_returned = "Message(r1)"

\* C9: `_` of an invocation that starts once the last result was handled
\* is what jsk_python_result_handling returned for that result.
C9_UnderscoreIsHandlerReturn ==
    [][\A i \in Slots :
          (/\ inv[i].kind = None /\ inv'[i].kind # None
           /\ last_returned = ResultHandling(last_result)) =>
              inv'[i].underscore = last_returned
      ]_vars

\* C10: a waiting session takes a message only from its author, in its
\* channel and (unless NO_REPL_PREFIX) with a leading backtick; it executes
\* the message unless its content is exit, quit, exit() or quit(); on exit
\* or quit it answers with the hint, executes nothing and stays a session.
C10_ReplAcceptsOnlyItsAuthor ==
    [][\A i \in Slots :
          /\ (inv[i].kind = "repl" /\ inv[i].pc = "wait" /\ inv'[i] # inv[i]) =>
                \/ /\ inv'[i] = NoInvocation
                   /\ inv[i].channel \notin repl_sessions'
                \/ /\ inv'[i].pc = "got"
                   /\ inv'[i].response.author = inv[i].author
                   /\ inv'[i].response.channel = inv[i].channel
                   /\ no_repl_prefix \/ inv'[i].response.tick
          /\ (inv[i].kind = "repl" /\ inv[i].pc = "got" /\ inv'[i] # inv[i]) =>
                IF inv[i].response.body \in {"exit", "quit"}
                THEN /\ inv'[i] = [inv[i] EXCEPT !.pc = "wait", !.out = "hint",
                                                 !.response = NoMessage]
                     /\ inv[i].channel \in repl_sessions'
                     /\ last_result' = last_result
                ELSE IF inv[i].response.body \in {"exit()", "quit()"}
                THEN inv'[i] = NoInvocation
                ELSE inv'[i].pc = "exec"
          /\ (inv'[i].kind = "repl" /\ inv'[i].pc = "exec") =>
                /\ inv'[i].response.author = inv'[i].author
                /\ inv'[i].response.channel = inv'[i].channel
                /\ no_repl_prefix \/ inv'[i].response.tick
                /\ inv'[i].response.body = "code"
      ]_vars

\* A session of u1 in c1 has answered `exit` with the hint and waits again,
\* while a session of u2 in c2 executes a message.
C10_Witness ==
    /\ ~no_repl_prefix
    /\ inv[1].kind = "repl" /\ inv[1].pc = "wait" /\ inv[1].out = "hint"
    /\ inv[1].author = "u1" /\ inv[1].channel = "c1"
    /\ inv[2].kind = "repl" /\ inv[2].pc = "exec"
    /\ inv[2].author = "u2" /\ inv[2].channel = "c2"
    /\ repl_sessions = {"c1", "c2"}

C5_NothingAddedAfterClose ==
    [][interface_closed => interface_lines' = interface_lines]_vars

\* C8: jsk cancel -1 on a list that is not empty removes the last task of
\* the list, which is the most recently submitted task still listed, cancels
\* that task and no other, and leaves the others listed in their order; on
\* an empty list it cancels nothing.
C8_CancelLast ==
    [][(reply' # reply /\ reply'.literal = "int" /\ reply'.index = -1) =>
          IF tasks = <<>>
          THEN /\ tasks' = tasks
               /\ cancelled' = cancelled
               /\ reply'.answer = "No tasks to cancel."
          ELSE /\ tasks' = SubSeq(tasks, 1, Len(tasks) - 1)
               /\ cancelled' = cancelled \cup {tasks[Len(tasks)]}
               /\ reply'.task = tasks[Len(tasks)]
               /\ reply'.answer = "Cancelled task"
               /\ \A k \in 1..Len(tasks) : tasks[k] <= tasks[Len(tasks)]
      ]_vars

\* Three tasks were submitted and jsk cancel -1 cancelled the third.
C8_Witness ==
    /\ reply.literal = "int" /\ reply.index = -1
    /\ reply.answer = "Cancelled task" /\ reply.task = 3
    /\ tasks = <<1, 2>>
    /\ cancelled = {3}

\* C7: two features that got the same jsk py and jsk repl commands and
\* differ only in their jsk retain commands run their jsk repl sessions
\* against scopes with the same visible names.
C7_RetainDoesNotAffectRepl ==
    (runs[1].repl # 0 /\ runs[2].repl # 0) =>
        ReplVisible(runs[1]) = ReplVisible(runs[2])

\* C11: the do_after_sleep task calls the coroutine only once it has slept
\* the whole delay, and only while the block runs; the triangle is added
\* only by the task that made that call; and when __aexit__ is over for a
\* block that ended before the delay had elapsed, the task is cancelled and
\* the triangle is not on the message, then and ever after.
C11_DelayedReaction ==
    [][/\ (handle = "sleeping" /\ handle' \in {"calling", "finished"}) =>
              (slept >= Delay /\ rpc = "block")
       /\ ("TRIANGLE" \notin reactions /\ "TRIANGLE" \in reactions') =>
              (slept >= Delay /\ handle \in {"calling", "cancelling"})
       /\ (rpc' = "done" /\ slept' < Delay) =>
              (handle' = "cancelled" /\ "TRIANGLE" \notin reactions')
      ]_vars

\* The block ended after one second of the delay: __aexit__ is over, the
\* task is cancelled and no triangle was added.
C11_Witness ==
    /\ rpc = "done"
    /\ slept = 1
    /\ handle = "cancelled"
    /\ ~flags.NO_REACTION
    /\ "TRIANGLE" \notin reactions

====
